---------------------------- MODULE Spec2Model ----------------------------
(***************************************************************************)
(* Model of two components of the add-ons front-end. The collection-       *)
(* editing form (CollectionManagerBase): its props, its local edit buffer  *)
(* (this.state), the handlers that change them and the one-shot timer that *)
(* resets the "add-on added" notice. The install button                    *)
(* (InstallButtonBase): its props, what it renders, its click handlers,    *)
(* the InstallTrigger installs under way, and getFileHash.                 *)
(*                                                                         *)
(* Text is a sequence of one-character strings, so that trimming,          *)
(* splitting, joining and entity decoding are computed, not assumed.       *)
(* JavaScript's null is the one-element sequence Null, whose element is no *)
(* character.                                                              *)
(***************************************************************************)
EXTENDS Integers, Sequences, FiniteSets, TLC

VARIABLES
  props,      \* this.props of the mounted component
  state,      \* this.state: the edit buffer and the added-status
  timeout,    \* this.timeout: the handle of the last timer scheduled (0: none)
  timers,     \* the host's scheduled, not yet fired or cleared timers
  nextTimerId,\* the handle the host's setTimeout returns next
  now,        \* the host's clock
  mounted,    \* FALSE once componentWillUnmount has run
  effects,    \* the calls the last handler made on its collaborators, in order
  lastOp,     \* the last handler that ran and how it ended
  history,    \* what has been observed so far (history variables)
  button,     \* this.props of the install button (InstallButtonBase)
  installing, \* the InstallTrigger installs whose completion callback is due
  tracked,    \* the events sent to _tracking so far, in order
  clicks,     \* the clicks the install button has handled so far
  hashCall    \* the arguments and the outcome of the getFileHash call

\* the install button, a component of its own
buttonVars == <<button, installing, tracked, clicks, hashCall>>

vars == <<props, state, timeout, timers, nextTimerId, now, mounted, effects,
          lastOp, history, button, installing, tracked, clicks, hashCall>>

-----------------------------------------------------------------------------
(* Bounds of the model *)

\* the longest generated text input
MaxLen == 2
\* the number of false -> true changes of hasAddonBeenAdded a behaviour takes
MaxAdded == 2
\* the number of clock advances a behaviour takes
MaxTicks == 4
\* the number of clicks on the install button a behaviour takes
MaxClicks == 2
\* the longest install URL given to getFileHash
MaxUrlLen == 3
\* the most files of a version given to getFileHash
MaxFiles == 2

-----------------------------------------------------------------------------
(* Text *)

Null == <<"null">>

LowerChars == {"a", "b", "d", "m", "o", "p", "r", "u", "v"}
UpperChars == {"B", "F"}
DigitChars == {"1"}
\* what /[A-Za-z0-9]/ matches
AlnumChars == LowerChars \cup UpperChars \cup DigitChars
\* what String.prototype.trim strips
SpaceChars == {" "}

IsBlankChar(c) == c \in SpaceChars

RECURSIVE TrimLeft(_)
TrimLeft(s) ==
  IF s = <<>> THEN <<>>
  ELSE IF IsBlankChar(Head(s)) THEN TrimLeft(Tail(s)) ELSE s

RECURSIVE TrimRight(_)
TrimRight(s) ==
  IF s = <<>> THEN <<>>
  ELSE IF IsBlankChar(s[Len(s)]) THEN TrimRight(SubSeq(s, 1, Len(s) - 1))
  ELSE s

\* value.trim()
Trim(s) == TrimRight(TrimLeft(s))

\* value.split(/[^A-Za-z0-9]/): every non-alphanumeric character is a
\* separator; adjacent separators leave empty segments. cur is the segment
\* being read.
RECURSIVE SplitFrom(_, _)
SplitFrom(s, cur) ==
  IF s = <<>> THEN <<cur>>
  ELSE IF Head(s) \in AlnumChars THEN SplitFrom(Tail(s), Append(cur, Head(s)))
  ELSE <<cur>> \o SplitFrom(Tail(s), <<>>)

SplitNonAlnum(s) == SplitFrom(s, <<>>)

\* segments.filter((s) => s !== '')
FilterNonEmpty(segs) == SelectSeq(segs, LAMBDA x : x # <<>>)

\* segments.join('-')
RECURSIVE JoinHyphen(_)
JoinHyphen(segs) ==
  IF segs = <<>> THEN <<>>
  ELSE IF Len(segs) = 1 THEN segs[1]
  ELSE segs[1] \o <<"-">> \o JoinHyphen(Tail(segs))

\* the slug onTextInput derives from a name input
SlugFromNameMissingFilter(trimmedValue) == JoinHyphen(SplitNonAlnum(trimmedValue))
SlugFromName(trimmedValue) ==
  JoinHyphen(FilterNonEmpty(SplitNonAlnum(trimmedValue)))

\* JavaScript truthiness of a string-or-null value
Truthy(v) == v # Null /\ v # <<>>

\* decodeHtmlEntities: one pass over the text, each "&amp;" becoming "&";
\* a null text decodes to the empty text
AmpEntity == <<"&", "a", "m", "p", ";">>

RECURSIVE DecodeText(_)
DecodeText(s) ==
  IF s = <<>> THEN <<>>
  ELSE IF Len(s) >= 5 /\ SubSeq(s, 1, 5) = AmpEntity
       THEN <<"&">> \o DecodeText(SubSeq(s, 6, Len(s)))
  ELSE <<Head(s)>> \o DecodeText(Tail(s))

decodeHtmlEntities(v) == IF v = Null THEN <<>> ELSE DecodeText(v)

-----------------------------------------------------------------------------
(* Constants of the component *)

MESSAGE_RESET_TIME == 5000

ADDON_ADDED_STATUS_PENDING == "ADDON_ADDED_STATUS_PENDING"
ADDON_ADDED_STATUS_SUCCESS == "ADDON_ADDED_STATUS_SUCCESS"
\* addonAddedStatus: null
NoStatus == "null"

\* a missing (null) string-valued prop: clientApp, siteLang, currentUsername
Missing == ""

-----------------------------------------------------------------------------
(* Props: the collections, filters and contexts the component is given *)

\* props.collection === null
NullCollection ==
  [id |-> 0, name |-> Null, description |-> Null, slug |-> Null,
   authorUsername |-> Missing, defaultLocale |-> Missing]

CollectionA ==
  [id |-> 1, name |-> <<"a">>, description |-> Null, slug |-> <<"a">>,
   authorUsername |-> "owner1", defaultLocale |-> "en-US"]

\* the same collection (same id) as the server returns it after a save
CollectionASaved ==
  [id |-> 1, name |-> <<"b">>, description |-> <<"d">>, slug |-> <<"b">>,
   authorUsername |-> "owner1", defaultLocale |-> "en-US"]

\* a collection whose name and description hold an HTML entity
CollectionB ==
  [id |-> 2, name |-> <<"a", "&", "a", "m", "p", ";", "b">>,
   description |-> AmpEntity, slug |-> <<"a", "-", "b">>,
   authorUsername |-> "owner2", defaultLocale |-> "fr"]

Collections == {CollectionA, CollectionASaved, CollectionB}

FiltersPage1 == [page |-> "1", collectionSort |-> "-added"]
FiltersPage2 == [page |-> "2", collectionSort |-> "name"]

\* convertFiltersToQueryParams(filters)
convertFiltersToQueryParams(filters) ==
  [page |-> filters.page, collection_sort |-> filters.collectionSort]

\* what the store and the router give besides the collection
Context(lang, app, user, filters, include) ==
  [siteLang |-> lang, clientApp |-> app, currentUsername |-> user,
   filters |-> filters, includeAddonId |-> include]

FullContext == Context("en-US", "firefox", "user1", FiltersPage1, Missing)
OtherContext == Context("fr", "android", "user2", FiltersPage2, "123")
Contexts ==
  {FullContext, OtherContext,
   Context(Missing, "firefox", "user1", FiltersPage1, Missing),
   Context("en-US", Missing, "user1", FiltersPage1, Missing),
   Context("en-US", "firefox", Missing, FiltersPage1, Missing)}

MakeProps(collection, creating, ctx, added, modifying) ==
  [collection |-> collection, creating |-> creating,
   filters |-> ctx.filters, clientApp |-> ctx.clientApp,
   siteLang |-> ctx.siteLang, currentUsername |-> ctx.currentUsername,
   includeAddonId |-> ctx.includeAddonId,
   hasAddonBeenAdded |-> added, isCollectionBeingModified |-> modifying]

ContextOf(p) ==
  Context(p.siteLang, p.clientApp, p.currentUsername, p.filters,
          p.includeAddonId)

-----------------------------------------------------------------------------
(* The component *)

\* propsToState(props)
propsToState(p) ==
  [addonAddedStatus |-> NoStatus,
   customSlug |-> FALSE,
   description |-> IF p.collection = NullCollection THEN Null
                   ELSE decodeHtmlEntities(p.collection.description),
   name |-> IF p.collection = NullCollection THEN Null
            ELSE decodeHtmlEntities(p.collection.name),
   slug |-> IF p.collection = NullCollection THEN Null
            ELSE p.collection.slug]

\* extractId(ownProps), the part of errorHandler.id that varies
extractId(p) ==
  IF p.collection = NullCollection THEN <<>> ELSE p.collection.slug

(* render(): what decides which controls can be used *)

formIsUnchangedIgnoringDescription(p, s) ==
  /\ p.collection # NullCollection
  /\ p.collection.name = s.name
  /\ p.collection.slug = s.slug

formIsUnchanged(p, s) ==
  /\ p.collection # NullCollection
  /\ p.collection.name = s.name
  /\ p.collection.slug = s.slug
  /\ \/ p.collection.description = s.description
     \/ p.collection.description = Null /\ ~Truthy(s.description)

formIsDisabled(p) ==
  (p.collection = NullCollection /\ ~p.creating) \/ p.isCollectionBeingModified

isNameBlankWithoutTrim(s) == ~Truthy(s.name)

isNameBlank(s) == ~(Truthy(s.name) /\ Len(Trim(s.name)) > 0)

isSlugBlankWithoutTrim(s) == ~Truthy(s.slug)

isSlugBlank(s) == ~(Truthy(s.slug) /\ Len(Trim(s.slug)) > 0)

isSubmitDisabled(p, s) ==
  formIsDisabled(p) \/ formIsUnchanged(p, s) \/ isNameBlank(s) \/ isSlugBlank(s)

\* the name and description inputs are rendered only with a collection or
\* in create mode; the slug input always is
InputRendered(p, field) ==
  field = "slug" \/ p.collection # NullCollection \/ p.creating

\* the add-on search input is rendered only outside create mode
AddonSearchRendered(p) == ~p.creating

Op(op, arg, outcome) == [op |-> op, arg |-> arg, outcome |-> outcome]

-----------------------------------------------------------------------------
(* The calls a handler makes on its collaborators *)

GoBack == [call |-> "router.goBack"]
ClearError == [call |-> "errorHandler.clear"]
Push(pathname, query) ==
  [call |-> "router.push", pathname |-> pathname, query |-> query]
Dispatch(action) == [call |-> "dispatch", action |-> action]
SetTimeoutCall(id, delay) ==
  [call |-> "setTimeout", callback |-> "resetMessageStatus", id |-> id,
   delay |-> delay]
ClearTimeoutCall(id) == [call |-> "clearTimeout", id |-> id]

\* `/${siteLang}/${clientApp}/collections/${authorUsername}/${slug}/`
CollectionPath(siteLang, clientApp, authorUsername, slug) ==
  <<"/", siteLang, "/", clientApp, "/collections/", authorUsername, "/",
    slug, "/">>

-----------------------------------------------------------------------------
(* componentWillReceiveProps(props) *)

ShouldResetFormOnEveryCollection(cur, p) == p.collection # NullCollection

\* line 107: the form is reset only for a collection not already edited
ShouldResetForm(cur, p) ==
  p.collection # NullCollection /\ p.collection.id # cur.collection.id

\* line 113
AddedFlagChanged(cur, p) == cur.hasAddonBeenAdded # p.hasAddonBeenAdded

ShouldScheduleResetOnAnyChange(cur, p) ==
  p.hasAddonBeenAdded # cur.hasAddonBeenAdded

\* line 121
ShouldScheduleReset(cur, p) ==
  p.hasAddonBeenAdded /\ p.hasAddonBeenAdded # cur.hasAddonBeenAdded

StateAfterProps(cur, s, p) ==
  LET s1 == IF ShouldResetForm(cur, p) THEN propsToState(p) ELSE s
  IN  IF AddedFlagChanged(cur, p)
      THEN [s1 EXCEPT !.addonAddedStatus =
                        IF p.hasAddonBeenAdded THEN ADDON_ADDED_STATUS_SUCCESS
                        ELSE NoStatus]
      ELSE s1

componentWillReceiveProps(p) ==
  /\ mounted
  /\ ShouldScheduleReset(props, p) => history.nAdded < MaxAdded
  /\ state' = StateAfterProps(props, state, p)
  /\ props' = p
  /\ IF ShouldScheduleReset(props, p)
     THEN /\ timers' = timers \cup
                         {[id |-> nextTimerId, due |-> now + MESSAGE_RESET_TIME]}
          /\ timeout' = nextTimerId
          /\ nextTimerId' = nextTimerId + 1
          /\ effects' = <<SetTimeoutCall(nextTimerId, MESSAGE_RESET_TIME)>>
     ELSE /\ UNCHANGED <<timers, timeout, nextTimerId>>
          /\ effects' = <<>>
  /\ history' =
       [history EXCEPT
          !.nAdded = IF ~props.hasAddonBeenAdded /\ p.hasAddonBeenAdded
                     THEN @ + 1 ELSE @,
          !.nScheduled = IF ShouldScheduleReset(props, p) THEN @ + 1 ELSE @,
          !.successAt = IF ~props.hasAddonBeenAdded /\ p.hasAddonBeenAdded
                        THEN now ELSE @,
          !.slugCustom = IF p.collection # NullCollection
                            /\ p.collection.id # props.collection.id
                         THEN FALSE ELSE @]
  /\ lastOp' = Op("componentWillReceiveProps",
                  IF ShouldResetForm(props, p) THEN "reset" ELSE "keep", "done")
  /\ UNCHANGED <<now, mounted>>
  /\ UNCHANGED buttonVars

-----------------------------------------------------------------------------
(* componentWillUnmount() *)

\* lines 130-132: only the timer this.timeout names is cleared
TimersAfterUnmount(pending, handle) ==
  IF handle # 0 THEN {t \in pending : t.id # handle} ELSE pending

componentWillUnmount ==
  /\ mounted
  /\ mounted' = FALSE
  /\ timers' = TimersAfterUnmount(timers, timeout)
  /\ effects' = IF timeout # 0 THEN <<ClearTimeoutCall(timeout)>> ELSE <<>>
  /\ lastOp' = Op("componentWillUnmount", "", "done")
  /\ UNCHANGED <<props, state, timeout, nextTimerId, now, history>>
  /\ UNCHANGED buttonVars

-----------------------------------------------------------------------------
(* onTextInput(event): event.target is the input named field, holding value *)

StateAfterTextInputIgnoringCustomSlug(p, s, field, value) ==
  LET trimmedValue == Trim(value)
  IN  IF p.creating /\ field = "name"
      THEN [s EXCEPT !.slug = SlugFromName(trimmedValue), !.name = value]
      ELSE IF p.creating /\ field = "slug" /\ trimmedValue # <<>>
      THEN [s EXCEPT !.customSlug = TRUE, !.slug = value]
      ELSE [s EXCEPT ![field] = value]

StateAfterTextInputInEveryMode(p, s, field, value) ==
  LET trimmedValue == Trim(value)
  IN  IF field = "name" /\ ~s.customSlug
      THEN [s EXCEPT !.slug = SlugFromName(trimmedValue), !.name = value]
      ELSE IF field = "slug" /\ trimmedValue # <<>>
      THEN [s EXCEPT !.customSlug = TRUE, !.slug = value]
      ELSE [s EXCEPT ![field] = value]

StateAfterTextInput(p, s, field, value) ==
  LET trimmedValue == Trim(value)
  IN  IF p.creating /\ field = "name" /\ ~s.customSlug
      THEN [s EXCEPT !.slug = SlugFromName(trimmedValue), !.name = value]
      ELSE IF p.creating /\ field = "slug" /\ trimmedValue # <<>>
      THEN [s EXCEPT !.customSlug = TRUE, !.slug = value]
      ELSE [s EXCEPT ![field] = value]

onTextInput(field, value) ==
  /\ mounted
  /\ InputRendered(props, field)
  /\ IF value = Null
     THEN /\ lastOp' = Op("onTextInput", field, "ignored")
          /\ UNCHANGED <<state, history>>
     ELSE /\ state' = StateAfterTextInput(props, state, field, value)
          /\ lastOp' = Op("onTextInput", field, "done")
          /\ history' =
               [history EXCEPT
                  !.slugEdited = @ \/ field = "slug",
                  !.slugCustom = @ \/ (props.creating /\ field = "slug"
                                         /\ Trim(value) # <<>>)]
  /\ effects' = <<>>
  /\ UNCHANGED <<props, timeout, timers, nextTimerId, now, mounted>>
  /\ UNCHANGED buttonVars

-----------------------------------------------------------------------------
(* onCancel(event) *)

\* lines 152-154
CancelAllowed(p) ==
  p.collection # NullCollection /\ p.clientApp # Missing /\ p.siteLang # Missing

CancelEffectsWithoutGoBack(p) ==
  <<ClearError,
    Push(CollectionPath(p.siteLang, p.clientApp, p.collection.authorUsername,
                        p.collection.slug),
         convertFiltersToQueryParams(p.filters))>>

\* the calls of a cancel whose preconditions hold (lines 148-164)
CancelEffects(p) ==
  (IF p.creating THEN <<GoBack>> ELSE <<>>) \o
  <<ClearError,
    Push(CollectionPath(p.siteLang, p.clientApp, p.collection.authorUsername,
                        p.collection.slug),
         convertFiltersToQueryParams(p.filters))>>

onCancel ==
  /\ mounted
  /\ IF CancelAllowed(props)
     THEN /\ state' = propsToState(props)
          /\ effects' = CancelEffects(props)
          /\ history' = [history EXCEPT !.slugCustom = FALSE]
          /\ lastOp' = Op("onCancel", "", "done")
     ELSE \* router.goBack() has run before the failing invariant()
          /\ effects' = IF props.creating THEN <<GoBack>> ELSE <<>>
          /\ lastOp' = Op("onCancel", "", "threw")
          /\ UNCHANGED <<state, history>>
  /\ UNCHANGED <<props, timeout, timers, nextTimerId, now, mounted>>
  /\ UNCHANGED buttonVars

-----------------------------------------------------------------------------
(* onSubmit(event) *)

\* name && name.trim()
TrimmedOrFalsy(v) == IF Truthy(v) THEN Trim(v) ELSE v

\* lines 186-188 and 207-210
SubmitAllowed(p, s) ==
  /\ p.siteLang # Missing
  /\ Truthy(TrimmedOrFalsy(s.name))
  /\ Truthy(TrimmedOrFalsy(s.slug))
  /\ p.creating \/ p.collection # NullCollection

Localized(locale, text) == [locale |-> locale, text |-> text]

SubmitActionKeyedByBufferSlug(p, s) ==
  IF p.creating
  THEN [type |-> "createCollection",
        description |-> Localized(p.siteLang, s.description),
        errorHandlerId |-> extractId(p),
        name |-> Localized(p.siteLang, TrimmedOrFalsy(s.name)),
        slug |-> TrimmedOrFalsy(s.slug),
        defaultLocale |-> p.siteLang,
        includeAddonId |-> p.includeAddonId,
        username |-> p.currentUsername]
  ELSE [type |-> "updateCollection",
        description |-> Localized(p.siteLang, s.description),
        errorHandlerId |-> extractId(p),
        name |-> Localized(p.siteLang, TrimmedOrFalsy(s.name)),
        slug |-> TrimmedOrFalsy(s.slug),
        collectionSlug |-> TrimmedOrFalsy(s.slug),
        defaultLocale |-> p.collection.defaultLocale,
        filters |-> p.filters,
        username |-> p.collection.authorUsername]

\* lines 190-219: the action a submit dispatches
SubmitAction(p, s) ==
  IF p.creating
  THEN [type |-> "createCollection",
        description |-> Localized(p.siteLang, s.description),
        errorHandlerId |-> extractId(p),
        name |-> Localized(p.siteLang, TrimmedOrFalsy(s.name)),
        slug |-> TrimmedOrFalsy(s.slug),
        defaultLocale |-> p.siteLang,
        includeAddonId |-> p.includeAddonId,
        username |-> p.currentUsername]
  ELSE [type |-> "updateCollection",
        description |-> Localized(p.siteLang, s.description),
        errorHandlerId |-> extractId(p),
        name |-> Localized(p.siteLang, TrimmedOrFalsy(s.name)),
        slug |-> TrimmedOrFalsy(s.slug),
        collectionSlug |-> p.collection.slug,
        defaultLocale |-> p.collection.defaultLocale,
        filters |-> p.filters,
        username |-> p.collection.authorUsername]

onSubmit ==
  /\ mounted
  /\ IF SubmitAllowed(props, state)
     THEN /\ effects' = <<Dispatch(SubmitAction(props, state))>>
          /\ lastOp' = Op("onSubmit", "", "done")
     ELSE /\ effects' = <<>>
          /\ lastOp' = Op("onSubmit", "", "threw")
  /\ UNCHANGED <<props, state, timeout, timers, nextTimerId, now, mounted,
                 history>>
  /\ UNCHANGED buttonVars

-----------------------------------------------------------------------------
(* onAddonSelected(suggestion) *)

\* a suggestion without an add-on id
NoAddonId == 0

\* lines 270-278
AddonSelectionAllowed(p, addonId) ==
  /\ addonId # NoAddonId
  /\ p.collection # NullCollection
  /\ p.currentUsername # Missing

AddAddonActionForOwner(p, addonId) ==
  [type |-> "addAddonToCollection",
   addonId |-> addonId,
   collectionId |-> p.collection.id,
   editing |-> TRUE,
   errorHandlerId |-> extractId(p),
   filters |-> p.filters,
   slug |-> p.collection.slug,
   username |-> p.collection.authorUsername]

\* lines 280-290: the action an add-on selection dispatches
AddAddonAction(p, addonId) ==
  [type |-> "addAddonToCollection",
   addonId |-> addonId,
   collectionId |-> p.collection.id,
   editing |-> TRUE,
   errorHandlerId |-> extractId(p),
   filters |-> p.filters,
   slug |-> p.collection.slug,
   username |-> p.currentUsername]

onAddonSelected(addonId) ==
  /\ mounted
  /\ AddonSearchRendered(props)
  /\ IF AddonSelectionAllowed(props, addonId)
     THEN /\ effects' = <<Dispatch(AddAddonAction(props, addonId))>>
          /\ state' = [state EXCEPT
                         !.addonAddedStatus = ADDON_ADDED_STATUS_PENDING]
          /\ lastOp' = Op("onAddonSelected", ToString(addonId), "done")
     ELSE /\ effects' = <<>>
          /\ lastOp' = Op("onAddonSelected", ToString(addonId), "threw")
          /\ UNCHANGED state
  /\ UNCHANGED <<props, timeout, timers, nextTimerId, now, mounted, history>>
  /\ UNCHANGED buttonVars

-----------------------------------------------------------------------------
(* The host's clock and the timer callback *)

\* the clock advances in steps of half the reset delay, and never past a
\* scheduled timer: a timer runs when it is due
TickStep == MESSAGE_RESET_TIME \div 2

Min(a, b) == IF a <= b THEN a ELSE b

TimeToNextTimer ==
  IF timers = {} THEN TickStep
  ELSE LET first == CHOOSE t \in timers : \A u \in timers : t.due <= u.due
       IN  first.due - now

Tick ==
  /\ history.ticks < MaxTicks
  /\ Min(TickStep, TimeToNextTimer) > 0
  /\ now' = now + Min(TickStep, TimeToNextTimer)
  /\ history' = [history EXCEPT !.ticks = @ + 1]
  /\ effects' = <<>>
  /\ lastOp' = Op("tick", "", "done")
  /\ UNCHANGED <<props, state, timeout, timers, nextTimerId, mounted>>
  /\ UNCHANGED buttonVars

\* resetMessageStatus(), run by the host for the due timer t. setState on
\* an unmounted component changes nothing.
resetMessageStatus(t) ==
  /\ t \in timers
  /\ t.due <= now
  /\ timers' = timers \ {t}
  /\ state' = IF mounted THEN [state EXCEPT !.addonAddedStatus = NoStatus]
              ELSE state
  /\ history' = [history EXCEPT !.nReset = @ + 1]
  /\ effects' = <<>>
  /\ lastOp' = Op("resetMessageStatus", "",
                  IF mounted THEN "done" ELSE "unmounted")
  /\ UNCHANGED <<props, timeout, nextTimerId, now, mounted>>
  /\ UNCHANGED buttonVars

-----------------------------------------------------------------------------
(* The install button (InstallButtonBase): its constants and props *)

ADDON_TYPE_OPENSEARCH == "ADDON_TYPE_OPENSEARCH"
ADDON_TYPE_THEME == "ADDON_TYPE_THEME"
\* with two of the types the component does not name
AddonTypes ==
  {ADDON_TYPE_THEME, ADDON_TYPE_OPENSEARCH, "extension", "dictionary"}

DISABLED == "DISABLED"
DOWNLOADING == "DOWNLOADING"
\* ENABLED (a reserved word here)
STATUS_ENABLED == "ENABLED"
ENABLING == "ENABLING"
INSTALLED == "INSTALLED"
INSTALLING == "INSTALLING"
UNINSTALLING == "UNINSTALLING"
\* a status the component does not name: the add-on is not installed
UNINSTALLED == "UNINSTALLED"
Statuses ==
  {DISABLED, DOWNLOADING, STATUS_ENABLED, ENABLING, INSTALLED, INSTALLING,
   UNINSTALLING, UNINSTALLED}

INSTALL_ACTION == "INSTALL_ACTION"
INSTALL_STARTED_ACTION == "INSTALL_STARTED_ACTION"

\* the value of a function that returns nothing, of a hash that is not found
Undefined == <<"undefined">>

\* an attribute the button is not given
NoAttribute == ""

\* addon.current_version === null
NoVersion == [id |-> 0, files |-> <<>>]

\* a null addon argument
NoAddon ==
  [guid |-> Missing, name |-> Missing, type |-> Missing,
   current_version |-> NoVersion]

Hash(i) == <<"hash", i>>

File(url, hash) == [url |-> url, hash |-> hash]

Version(files) == [id |-> 1, files |-> files]

Addon(type, version) ==
  [guid |-> "guid1", name |-> "name1", type |-> type,
   current_version |-> version]

\* this.props: compatible is the answer of _getClientCompatibility, server
\* is _config.get('server'), installTrigger is whether _InstallTrigger is
\* there, installURL is what findInstallURL has resolved
ButtonProps(addon, status, compatible, server, installTrigger, installURL) ==
  [addon |-> addon, status |-> status, compatible |-> compatible,
   server |-> server, installTrigger |-> installTrigger,
   installURL |-> installURL]

-----------------------------------------------------------------------------
(* getFileHash({ addon, installURL }) *)

\* installURL.split('?')[0]
RECURSIVE BeforeQuery(_)
BeforeQuery(url) ==
  IF url = <<>> \/ Head(url) = "?" THEN <<>>
  ELSE <<Head(url)>> \o BeforeQuery(Tail(url))

startsWithReversed(s, prefix) ==
  Len(s) <= Len(prefix) /\ SubSeq(prefix, 1, Len(s)) = s

\* s.startsWith(prefix)
startsWith(s, prefix) ==
  Len(prefix) <= Len(s) /\ SubSeq(s, 1, Len(prefix)) = prefix

\* the loop of lines 107-114: the index of the file it returns from, 0 when
\* it runs to its end
RECURSIVE FirstFileFrom(_, _, _)
FirstFileFrom(files, urlKey, i) ==
  IF i > Len(files) THEN 0
  ELSE IF startsWith(files[i].url, urlKey) THEN i
  ELSE FirstFileFrom(files, urlKey, i + 1)

Thrown(message) ==
  [threw |-> TRUE, message |-> message, warned |-> FALSE, value |-> Undefined]

Returned(value, warned) ==
  [threw |-> FALSE, message |-> "", warned |-> warned, value |-> value]

getFileHash(addon, installURL) ==
  IF addon = NoAddon
  THEN Thrown("The addon parameter cannot be empty")
  ELSE IF ~Truthy(installURL)
  THEN Thrown("The installURL parameter cannot be empty")
  ELSE LET urlKey == BeforeQuery(installURL)
           found == IF addon.current_version # NoVersion
                    THEN FirstFileFrom(addon.current_version.files, urlKey, 1)
                    ELSE 0
       IN  IF found # 0
           THEN Returned(addon.current_version.files[found].hash, FALSE)
           ELSE Returned(Undefined, TRUE)

\* log.warn(...)
LogWarn == [call |-> "log.warn"]

\* a call that has not been made yet
NotCalled ==
  [threw |-> FALSE, message |-> "not called", warned |-> FALSE,
   value |-> Undefined]

CallGetFileHash ==
  /\ hashCall.outcome = NotCalled
  /\ hashCall' =
       [hashCall EXCEPT
          !.outcome = getFileHash(hashCall.addon, hashCall.installURL)]
  /\ effects' =
       IF getFileHash(hashCall.addon, hashCall.installURL).warned
       THEN <<LogWarn>> ELSE <<>>
  /\ lastOp' =
       Op("getFileHash", "",
          IF getFileHash(hashCall.addon, hashCall.installURL).threw
          THEN "threw" ELSE "done")
  /\ UNCHANGED <<props, state, timeout, timers, nextTimerId, now, mounted,
                 history, button, installing, tracked, clicks>>

-----------------------------------------------------------------------------
(* render() of the install button *)

showLoadingAnimationWithoutUninstalling(p) ==
  p.status \in {DOWNLOADING, ENABLING, INSTALLING}

showLoadingAnimation(p) ==
  p.status \in {DOWNLOADING, ENABLING, INSTALLING, UNINSTALLING}

\* getThemeData(addon)
getThemeData(addon) == [id |-> addon.guid, name |-> addon.name]

\* JSON.stringify(value)
JSONstringify(value) == ToString(value)

\* the props of the Button: onClick names the handler, "preventDefault" the
\* inline (event) => event.preventDefault()
ButtonOf(buttonType, href, onClick, browsertheme) ==
  [buttonType |-> buttonType, href |-> href, onClick |-> onClick,
   browsertheme |-> browsertheme]

buttonPropsThemeBeforeStatus(p) ==
  IF ~p.compatible
  THEN ButtonOf("action", p.installURL, "preventDefault", NoAttribute)
  ELSE IF p.addon.type = ADDON_TYPE_THEME
  THEN ButtonOf("action", p.installURL, "installTheme",
                JSONstringify(getThemeData(p.addon)))
  ELSE IF p.status \in {DISABLED, STATUS_ENABLED, INSTALLED}
  THEN ButtonOf("neutral", p.installURL, "uninstallAddon", NoAttribute)
  ELSE ButtonOf("action", p.installURL,
                IF p.addon.type = ADDON_TYPE_OPENSEARCH
                THEN "installOpenSearch" ELSE "installExtension",
                NoAttribute)

buttonPropsIgnoringCompatibility(p) ==
  IF p.status \in {DISABLED, STATUS_ENABLED, INSTALLED}
  THEN ButtonOf("neutral", p.installURL, "uninstallAddon", NoAttribute)
  ELSE IF p.addon.type = ADDON_TYPE_THEME
  THEN ButtonOf("action", p.installURL, "installTheme",
                JSONstringify(getThemeData(p.addon)))
  ELSE ButtonOf("action", p.installURL,
                IF p.addon.type = ADDON_TYPE_OPENSEARCH
                THEN "installOpenSearch" ELSE "installExtension",
                NoAttribute)

buttonPropsOpenSearchAsExtension(p) ==
  IF ~p.compatible
  THEN ButtonOf("action", p.installURL, "preventDefault", NoAttribute)
  ELSE IF p.status \in {DISABLED, STATUS_ENABLED, INSTALLED}
  THEN ButtonOf("neutral", p.installURL, "uninstallAddon", NoAttribute)
  ELSE IF p.addon.type = ADDON_TYPE_THEME
  THEN ButtonOf("action", p.installURL, "installTheme",
                JSONstringify(getThemeData(p.addon)))
  ELSE ButtonOf("action", p.installURL, "installExtension", NoAttribute)

\* lines 321-348: buttonIsDisabled is !compatible
buttonProps(p) ==
  IF ~p.compatible
  THEN ButtonOf("action", p.installURL, "preventDefault", NoAttribute)
  ELSE IF p.status \in {DISABLED, STATUS_ENABLED, INSTALLED}
  THEN ButtonOf("neutral", p.installURL, "uninstallAddon", NoAttribute)
  ELSE IF p.addon.type = ADDON_TYPE_THEME
  THEN ButtonOf("action", p.installURL, "installTheme",
                JSONstringify(getThemeData(p.addon)))
  ELSE ButtonOf("action", p.installURL,
                IF p.addon.type = ADDON_TYPE_OPENSEARCH
                THEN "installOpenSearch" ELSE "installExtension",
                NoAttribute)

\* what render() returns: nothing, the loading animation or the Button
\* with its props and, when buttonIsDisabled, its disabled class
render(p) ==
  IF p.addon.type = ADDON_TYPE_OPENSEARCH /\ p.server
  THEN [element |-> "null", disabledClass |-> FALSE,
        props |-> ButtonOf("", <<>>, "", NoAttribute)]
  ELSE IF showLoadingAnimation(p)
  THEN [element |-> "AnimatedIcon", disabledClass |-> FALSE,
        props |-> ButtonOf("", <<>>, "", NoAttribute)]
  ELSE [element |-> "Button", disabledClass |-> ~p.compatible,
        props |-> buttonProps(p)]

-----------------------------------------------------------------------------
(* The click handlers of the install button *)

PreventDefault == [call |-> "event.preventDefault"]
StopPropagation == [call |-> "event.stopPropagation"]
UninstallCall(params) == [call |-> "uninstall", params |-> params]
InstallThemeCall(node, addon) ==
  [call |-> "installTheme", node |-> node, addon |-> addon]
AddSearchProviderCall(url) ==
  [call |-> "window.external.AddSearchProvider", url |-> url]
SendEvent(event) == [call |-> "_tracking.sendEvent", event |-> event]
InstallTriggerInstall(name, payload) ==
  [call |-> "InstallTrigger.install", name |-> name, payload |-> payload]

\* getAddonTypeForTracking(type)
getAddonTypeForTracking(type) == <<"tracking type", type>>

\* getAddonEventCategory(type, installAction)
getAddonEventCategory(type, installAction) ==
  <<"category", type, installAction>>

\* the event of trackInstallStarted({ addonName, type })
InstallStartedEvent(addonName, type) ==
  [action |-> getAddonTypeForTracking(type),
   category |-> getAddonEventCategory(type, INSTALL_STARTED_ACTION),
   label |-> addonName]

\* the event of trackInstallSucceeded({ addonName, type })
InstallSucceededEvent(addonName, type) ==
  [action |-> getAddonTypeForTracking(type),
   category |-> getAddonEventCategory(type, INSTALL_ACTION),
   label |-> addonName]

\* an event sent while, or in answer to, the click numbered click
Tracked(click, event) == [click |-> click, event |-> event]

\* getAddonIconUrl(addon)
getAddonIconUrl(addon) == <<"icon of", addon.guid>>

\* a click reaches the handler the rendered Button was given
Clicked(handler) ==
  /\ clicks < MaxClicks
  /\ render(button).element = "Button"
  /\ render(button).props.onClick = handler
  /\ clicks' = clicks + 1

\* event.currentTarget.href
Href == render(button).props.href

\* (event) => event.preventDefault()
onClick ==
  /\ Clicked("preventDefault")
  /\ effects' = <<PreventDefault>>
  /\ lastOp' = Op("onClick", "", "done")
  /\ UNCHANGED <<props, state, timeout, timers, nextTimerId, now, mounted,
                 history, button, installing, tracked, hashCall>>

installTheme ==
  /\ Clicked("installTheme")
  /\ effects' =
       <<PreventDefault, StopPropagation,
         InstallThemeCall("event.currentTarget",
                          [addon |-> button.addon, status |-> button.status])>>
  /\ lastOp' = Op("installTheme", "", "done")
  /\ UNCHANGED <<props, state, timeout, timers, nextTimerId, now, mounted,
                 history, button, installing, tracked, hashCall>>

installOpenSearch ==
  /\ Clicked("installOpenSearch")
  /\ effects' =
       <<PreventDefault, StopPropagation, AddSearchProviderCall(Href),
         SendEvent(InstallStartedEvent(button.addon.name, button.addon.type))>>
  /\ tracked' =
       Append(tracked,
              Tracked(clicks + 1,
                      InstallStartedEvent(button.addon.name,
                                          button.addon.type)))
  /\ lastOp' = Op("installOpenSearch", "", "returned false")
  /\ UNCHANGED <<props, state, timeout, timers, nextTimerId, now, mounted,
                 history, button, installing, hashCall>>

\* the payload is that of lines 186-193, toString left out; the completion
\* callback of lines 195-207 keeps name and type
installExtension ==
  /\ Clicked("installExtension")
  /\ tracked' =
       Append(tracked,
              Tracked(clicks + 1,
                      InstallStartedEvent(button.addon.name,
                                          button.addon.type)))
  /\ LET started ==
           SendEvent(InstallStartedEvent(button.addon.name, button.addon.type))
         hash == getFileHash(button.addon, Href)
     IN  IF ~button.installTrigger
         THEN /\ effects' = <<started>>
              /\ lastOp' = Op("installExtension", "", "returned true")
              /\ UNCHANGED installing
         ELSE IF hash.threw
         THEN /\ effects' = <<started, PreventDefault, StopPropagation>>
              /\ lastOp' = Op("installExtension", "", "threw")
              /\ UNCHANGED installing
         ELSE /\ effects' =
                   <<started, PreventDefault, StopPropagation>> \o
                   (IF hash.warned THEN <<LogWarn>> ELSE <<>>) \o
                   <<InstallTriggerInstall(
                       button.addon.name,
                       [Hash |-> hash.value,
                        IconURL |-> getAddonIconUrl(button.addon),
                        URL |-> Href])>>
              /\ lastOp' = Op("installExtension", "", "returned false")
              /\ installing' =
                   installing \cup
                     {[click |-> clicks + 1, name |-> button.addon.name,
                       type |-> button.addon.type]}
  /\ UNCHANGED <<props, state, timeout, timers, nextTimerId, now, mounted,
                 history, button, hashCall>>

uninstallAddon ==
  /\ Clicked("uninstallAddon")
  /\ effects' =
       <<PreventDefault, StopPropagation,
         UninstallCall([guid |-> button.addon.guid, installURL |-> Href,
                        name |-> button.addon.name,
                        type |-> button.addon.type])>>
  /\ lastOp' = Op("uninstallAddon", "", "returned false")
  /\ UNCHANGED <<props, state, timeout, timers, nextTimerId, now, mounted,
                 history, button, installing, tracked, hashCall>>

CompletionTracksAnyStatus(status) == TRUE

\* status === 0
CompletionTracks(status) == status = 0

\* the callback InstallTrigger runs, once, when the install has completed
installCompleted(completion, status) ==
  /\ completion \in installing
  /\ installing' = installing \ {completion}
  /\ IF CompletionTracks(status)
     THEN /\ effects' =
               <<SendEvent(InstallSucceededEvent(completion.name,
                                                 completion.type))>>
          /\ tracked' =
               Append(tracked,
                      Tracked(completion.click,
                              InstallSucceededEvent(completion.name,
                                                    completion.type)))
     ELSE /\ effects' = <<>>
          /\ UNCHANGED tracked
  /\ lastOp' = Op("installCompleted", ToString(status), "done")
  /\ UNCHANGED <<props, state, timeout, timers, nextTimerId, now, mounted,
                 history, button, clicks, hashCall>>

\* the parent renders the button with other props
receiveButtonProps(p) ==
  /\ button' = p
  /\ effects' = <<>>
  /\ lastOp' = Op("InstallButton.render", "", "done")
  /\ UNCHANGED <<props, state, timeout, timers, nextTimerId, now, mounted,
                 history, installing, tracked, clicks, hashCall>>

-----------------------------------------------------------------------------
(* Construction *)

InitialHistory ==
  [nAdded |-> 0, nScheduled |-> 0, nReset |-> 0, successAt |-> -1,
   ticks |-> 0, slugEdited |-> FALSE, slugCustom |-> FALSE]

\* constructor(props): this.state = this.propsToState(props)
Constructed(p) ==
  /\ props = p
  /\ state = propsToState(p)
  /\ timeout = 0
  /\ timers = {}
  /\ nextTimerId = 1
  /\ now = 0
  /\ mounted = TRUE
  /\ effects = <<>>
  /\ lastOp = Op("constructor", "", "done")
  /\ history = InitialHistory

\* constructor of the install button
InstallButtonConstructed(p) ==
  /\ button = p
  /\ installing = {}
  /\ tracked = <<>>
  /\ clicks = 0

NoHashCall == [addon |-> NoAddon, installURL |-> <<>>, outcome |-> NotCalled]

OneFile == Version(<<File(<<"u">>, Hash(1))>>)

ExtensionButton ==
  ButtonProps(Addon("extension", OneFile), UNINSTALLED, TRUE, FALSE, TRUE,
              <<"u">>)

\* the install button while the form is at work
InstallButtonIdle ==
  InstallButtonConstructed(ExtensionButton) /\ hashCall = NoHashCall

\* the form while the install button is at work
FormIdle ==
  Constructed(MakeProps(NullCollection, FALSE, FullContext, FALSE, FALSE))

-----------------------------------------------------------------------------
(* The form under text input: the store's added flag and the context are   *)
(* held fixed, the text inputs are all texts up to MaxLen.                  *)

TextAlphabet == {"a", " ", "!"}

Texts(n) == UNION {[1..k -> TextAlphabet] : k \in 0..n}

FooBar == <<"F", "o", "o", " ", "B", "a", "r">>

NameInputs == Texts(MaxLen) \cup {FooBar, Null}
SlugInputs == {<<>>, <<" ">>, <<"b">>, <<" ", "b", " ">>}
DescriptionInputs == {<<>>, <<" ">>, <<"d">>}

InputsOf(field) ==
  CASE field = "name" -> NameInputs
    [] field = "slug" -> SlugInputs
    [] field = "description" -> DescriptionInputs

Fields == {"name", "slug", "description"}

Init ==
  /\ InstallButtonIdle
  /\ \E c \in Collections \cup {NullCollection}, cr \in BOOLEAN :
       Constructed(MakeProps(c, cr, FullContext, FALSE, FALSE))

ReceiveFormProps ==
  \E c \in Collections \cup {NullCollection}, cr, m \in BOOLEAN :
    componentWillReceiveProps(
      MakeProps(c, cr, ContextOf(props), props.hasAddonBeenAdded, m))

TextInput == \E f \in Fields : \E v \in InputsOf(f) : onTextInput(f, v)

Next ==
  \/ ReceiveFormProps
  \/ TextInput
  \/ onCancel

Spec == Init /\ [][Next]_vars

-----------------------------------------------------------------------------
(* The added-status and its reset timer: the store's added flag and the    *)
(* collection change, add-ons are selected, the host's clock advances and  *)
(* runs the due timers, and the component is torn down. The form is not in *)
(* create mode (the add-on search is rendered) and no text is typed.       *)

InitTimer ==
  /\ InstallButtonIdle
  /\ \E c \in {NullCollection, CollectionA}, added \in BOOLEAN :
       Constructed(MakeProps(c, FALSE, FullContext, added, FALSE))

ReceiveStoreProps ==
  \E c \in {CollectionA, CollectionB}, added \in BOOLEAN :
    componentWillReceiveProps(
      MakeProps(c, props.creating, ContextOf(props), added,
                props.isCollectionBeingModified))

AddonSelected == \E addonId \in {NoAddonId, 7, 8} : onAddonSelected(addonId)

TimerFires == \E t \in timers : resetMessageStatus(t)

NextTimer ==
  \/ ReceiveStoreProps
  \/ AddonSelected
  \/ onCancel
  \/ componentWillUnmount
  \/ Tick
  \/ TimerFires

SpecTimer == InitTimer /\ [][NextTimer]_vars

-----------------------------------------------------------------------------
(* The form under changing props: the collection, the create mode and the  *)
(* store's added flag change between a few text inputs; the context is     *)
(* held fixed and the clock stands still.                                  *)

InitProps ==
  /\ InstallButtonIdle
  /\ \E c \in Collections \cup {NullCollection}, cr \in BOOLEAN :
       Constructed(MakeProps(c, cr, FullContext, FALSE, FALSE))

ReceiveChangedProps ==
  \E c \in Collections \cup {NullCollection}, cr, added \in BOOLEAN :
    componentWillReceiveProps(
      MakeProps(c, cr, ContextOf(props), added,
                props.isCollectionBeingModified))

OneInputOf(field) ==
  CASE field = "name" -> <<"b">>
    [] field = "slug" -> <<"c">>
    [] field = "description" -> <<"d">>

OneTextInput == \E f \in Fields : onTextInput(f, OneInputOf(f))

NextProps ==
  \/ ReceiveChangedProps
  \/ OneTextInput
  \/ AddonSelected

SpecProps == InitProps /\ [][NextProps]_vars

-----------------------------------------------------------------------------
(* The form's submit, cancel and add-on selection in every context: the    *)
(* collection, the create mode and the context (site language, client      *)
(* application, user, filters, query) change between a few text inputs;    *)
(* the store's added flag is held fixed.                                   *)

InitActions ==
  /\ InstallButtonIdle
  /\ \E c \in {NullCollection, CollectionA, CollectionB}, cr \in BOOLEAN,
        ctx \in Contexts :
       Constructed(MakeProps(c, cr, ctx, FALSE, FALSE))

ReceiveContextProps ==
  \E c \in {NullCollection, CollectionA, CollectionB}, cr \in BOOLEAN,
     ctx \in Contexts :
    componentWillReceiveProps(
      MakeProps(c, cr, ctx, props.hasAddonBeenAdded,
                props.isCollectionBeingModified))

PaddedInputOf(field) ==
  CASE field = "name" -> <<" ", "b", " ">>
    [] field = "slug" -> <<" ", "c", " ">>
    [] field = "description" -> <<"d">>

PaddedTextInput == \E f \in Fields : onTextInput(f, PaddedInputOf(f))

\* a name or a slug of whitespace only
BlankTextInput == \E f \in {"name", "slug"} : onTextInput(f, <<" ">>)

NextActions ==
  \/ ReceiveContextProps
  \/ PaddedTextInput
  \/ BlankTextInput
  \/ AddonSelected
  \/ onSubmit
  \/ onCancel

SpecActions == InitActions /\ [][NextActions]_vars

-----------------------------------------------------------------------------
(* The install button under clicks: the add-on, the environment and the    *)
(* resolved install URL are those the button was constructed with, the     *)
(* install status and the compatibility change, the button is clicked and  *)
(* InstallTrigger completes the installs it was given. The form stands     *)
(* still.                                                                  *)

\* the install URLs: one with a query string, which names the file of
\* OneFile, and one that names no file
ButtonPropsSet ==
  {ButtonProps(Addon(type, version), status, compatible, server,
               installTrigger, installURL) :
     type \in AddonTypes, version \in {NoVersion, OneFile},
     status \in Statuses, compatible \in BOOLEAN, server \in BOOLEAN,
     installTrigger \in BOOLEAN,
     installURL \in {<<"u", "?", "s">>, <<"v">>}}

InitInstall ==
  /\ FormIdle
  /\ hashCall = NoHashCall
  /\ \E p \in ButtonPropsSet : InstallButtonConstructed(p)

ReceiveButtonStatus ==
  \E status \in Statuses, compatible \in BOOLEAN :
    receiveButtonProps(
      [button EXCEPT !.status = status, !.compatible = compatible])

InstallCompletes ==
  \E completion \in installing, status \in {0, 1} :
    installCompleted(completion, status)

NextInstall ==
  \/ ReceiveButtonStatus
  \/ onClick
  \/ installTheme
  \/ installOpenSearch
  \/ installExtension
  \/ uninstallAddon
  \/ InstallCompletes

SpecInstall == InitInstall /\ [][NextInstall]_vars

-----------------------------------------------------------------------------
(* getFileHash on its own: every add-on with up to MaxFiles files and      *)
(* every install URL of up to MaxUrlLen characters, one call each.         *)

Urls(n) == UNION {[1..k -> {"u", "v", "?"}] : k \in 0..n}

\* the lists of up to n files; the hash of a file tells its place
FileLists(n) ==
  UNION {{[i \in 1..k |-> File(f[i], Hash(i))] :
            f \in [1..k -> {<<"u">>, <<"u", "v">>, <<"v", "u">>}]} :
           k \in 0..n}

HashAddons ==
  {NoAddon, Addon("extension", NoVersion)} \cup
  {Addon("extension", Version(files)) : files \in FileLists(MaxFiles)}

InitHash ==
  /\ FormIdle
  /\ InstallButtonConstructed(ExtensionButton)
  /\ \E addon \in HashAddons, installURL \in Urls(MaxUrlLen) \cup {Null} :
       hashCall =
         [addon |-> addon, installURL |-> installURL, outcome |-> NotCalled]

NextHash == CallGetFileHash

SpecHash == InitHash /\ [][NextHash]_vars

-----------------------------------------------------------------------------
(* What the claims speak of, stated without the component's own helpers *)

\* a text that is null, empty or whitespace only
Blank(v) == v = Null \/ \A i \in 1..Len(v) : v[i] \in SpaceChars

HasAlnum(v) == v # Null /\ \E i \in 1..Len(v) : v[i] \in AlnumChars

\* the alphanumeric runs of v joined by single hyphens: every alphanumeric
\* character of v in order, with a hyphen before each one that starts a run
\* other than the first
RECURSIVE AlnumRunsFrom(_, _)
AlnumRunsFrom(v, i) ==
  IF i > Len(v) THEN <<>>
  ELSE IF v[i] \notin AlnumChars THEN AlnumRunsFrom(v, i + 1)
  ELSE (IF i > 1 /\ v[i - 1] \notin AlnumChars
           /\ \E j \in 1..(i - 1) : v[j] \in AlnumChars
        THEN <<"-">> ELSE <<>>) \o <<v[i]>> \o AlnumRunsFrom(v, i + 1)

AlnumRunsJoined(v) == AlnumRunsFrom(v, 1)

\* a missing description and an empty one are the same description
SameDescription(a, b) == a = b \/ (a \in {Null, <<>>} /\ b \in {Null, <<>>})

\* the edit buffer holds the persisted collection's name, slug, description
BufferEqualsPersisted(p, s) ==
  /\ p.collection # NullCollection
  /\ s.name = p.collection.name
  /\ s.slug = p.collection.slug
  /\ SameDescription(s.description, p.collection.description)

NameInputDone == Op("onTextInput", "name", "done")

-----------------------------------------------------------------------------
(* C1: in create mode, while the slug has not been manually edited (the    *)
(* manually-edited flag is clear), after every text input to the name      *)
(* field the buffer's slug is the alphanumeric runs of the name joined by  *)
(* single hyphens, and the buffer's name is the input.                     *)
C1_SlugDerivedFromName ==
  (lastOp = NameInputDone /\ props.creating /\ ~state.customSlug)
    => state.slug = AlnumRunsJoined(state.name)

\* the name "Foo Bar" has given the slug "Foo-Bar", after an earlier input
\* had given another slug
C1_Witness ==
  /\ lastOp = NameInputDone
  /\ props.creating
  /\ ~state.customSlug
  /\ ~history.slugEdited
  /\ state.name = FooBar
  /\ state.slug = <<"F", "o", "o", "-", "B", "a", "r">>

(* C2 as claimed: once the user has directly edited the slug field, no     *)
(* later text input to the name field changes the buffer's slug, whatever  *)
(* happened in between.                                                    *)
C2_NeverRederivedOnceEdited ==
  [][(history.slugEdited /\ lastOp' = NameInputDone)
       => state'.slug = state.slug]_vars

(* C2 as amended: once the user, in create mode, has given the slug field  *)
(* a value that is not blank, no text input to the name field changes the  *)
(* buffer's slug until the buffer is re-initialized by a cancel or by a    *)
(* collection with another identifier.                                     *)
C2_NotRederivedUntilReset ==
  [][(history.slugCustom /\ lastOp' = NameInputDone)
       => state'.slug = state.slug]_vars

\* a name input in create mode, after a manual slug edit, has left a slug
\* that is not the one the name derives
C2_Witness ==
  /\ history.slugCustom
  /\ lastOp = NameInputDone
  /\ props.creating
  /\ HasAlnum(state.name)
  /\ state.slug # AlnumRunsJoined(state.name)

(* C3: in every state the submit button is disabled exactly when (no       *)
(* collection is loaded and the form is not in create mode) or a           *)
(* modification is in flight or the buffer equals the persisted collection *)
(* or the buffer's name is blank or the buffer's slug is blank.            *)
C3_SubmitDisabledPolicy ==
  isSubmitDisabled(props, state) <=>
    \/ props.collection = NullCollection /\ ~props.creating
    \/ props.isCollectionBeingModified
    \/ BufferEqualsPersisted(props, state)
    \/ Blank(state.name)
    \/ Blank(state.slug)

\* an edit has enabled the submit button of a loaded collection
C3_Witness ==
  /\ ~isSubmitDisabled(props, state)
  /\ props.collection # NullCollection
  /\ lastOp.op = "onTextInput"
  /\ ~BufferEqualsPersisted(props, state)
  /\ ~Blank(state.name) /\ ~Blank(state.slug)

\* a text input has given field f of the buffer a value that is not blank
\* and not the persisted one, the buffer having held the persisted values
ChangedOneField(f) ==
  /\ props.collection # NullCollection
  /\ ~props.isCollectionBeingModified
  /\ BufferEqualsPersisted(props, state)
  /\ lastOp' = Op("onTextInput", f, "done")
  /\ ~Blank(state'[f])
  /\ state'[f] # props.collection[f]

\* the name input that leaves nothing to derive a slug from
DerivesBlankSlug(f) ==
  props.creating /\ f = "name" /\ ~state.customSlug /\ ~HasAlnum(state'.name)

\* the button is disabled while the buffer holds the persisted values
C4_DisabledWhenEqual ==
  BufferEqualsPersisted(props, state) => isSubmitDisabled(props, state)

(* C4 as claimed: the submit button is disabled while the buffer equals    *)
(* the persisted collection, and enabled after any one field is changed by *)
(* a text input to a non-blank value other than the persisted one.         *)
C4_EnabledAfterAnyChange ==
  /\ []C4_DisabledWhenEqual
  /\ [][\A f \in Fields :
          ChangedOneField(f) => ~isSubmitDisabled(props', state')]_vars

(* C4 as amended: as claimed, except that in create mode, with the slug    *)
(* not manually edited, a name input without any alphanumeric character    *)
(* derives an empty slug and leaves the button disabled.                   *)
C4_EnabledAfterChange ==
  /\ []C4_DisabledWhenEqual
  /\ [][\A f \in Fields :
          ChangedOneField(f) =>
            (isSubmitDisabled(props', state') <=> DerivesBlankSlug(f))]_vars

\* a changed description alone has enabled the button
C4_Witness ==
  /\ lastOp = Op("onTextInput", "description", "done")
  /\ props.collection # NullCollection
  /\ state.name = props.collection.name
  /\ state.slug = props.collection.slug
  /\ ~Blank(state.description)
  /\ state.description # props.collection.description
  /\ ~isSubmitDisabled(props, state)

-----------------------------------------------------------------------------
\* the incoming props hold a collection whose identifier is not the current
\* collection's (no current collection counts as another identifier)
IncomingIdDiffers ==
  props'.collection # NullCollection /\ props'.collection.id # props.collection.id

\* the buffer a collection initializes: its decoded name and description,
\* its slug, the manually-edited flag clear
FreshFrom(c, status) ==
  [addonAddedStatus |-> status, customSlug |-> FALSE,
   description |-> decodeHtmlEntities(c.description),
   name |-> decodeHtmlEntities(c.name), slug |-> c.slug]

BufferKept ==
  /\ state'.name = state.name
  /\ state'.description = state.description
  /\ state'.slug = state.slug
  /\ state'.customSlug = state.customSlug

(* C5 as claimed: receiving props re-initializes the buffer (name,         *)
(* description, slug of the incoming collection, manually-edited flag and  *)
(* added-status cleared) if the incoming collection's identifier differs   *)
(* from the current one's, and otherwise leaves name, description, slug    *)
(* and manually-edited flag unchanged.                                     *)
C5_ResetClearsStatus ==
  [][lastOp'.op = "componentWillReceiveProps" =>
       IF IncomingIdDiffers
       THEN state' = FreshFrom(props'.collection, NoStatus)
       ELSE BufferKept]_vars

(* C5 as amended: as claimed, except that the added-status is success, not *)
(* cleared, when the same props change the store's added flag to true.     *)
C5_ResetOnlyOnNewIdentifier ==
  [][lastOp'.op = "componentWillReceiveProps" =>
       IF IncomingIdDiffers
       THEN state' = FreshFrom(props'.collection,
                               IF ~props.hasAddonBeenAdded
                                  /\ props'.hasAddonBeenAdded
                               THEN ADDON_ADDED_STATUS_SUCCESS ELSE NoStatus)
       ELSE BufferKept]_vars

\* the saved collection has arrived under the same identifier and the
\* edits in progress, manual slug included, are still in the buffer
C5_Witness ==
  /\ lastOp = Op("componentWillReceiveProps", "keep", "done")
  /\ props.collection = CollectionASaved
  /\ state.name = CollectionA.name
  /\ state.slug = <<"c">>
  /\ state.customSlug
  /\ state.description = <<"d">>

(* C6: the added-status goes to success when the store's added flag is     *)
(* seen to change to true, and the reset callback returns a success status *)
(* to null exactly MESSAGE_RESET_TIME after that success was observed, not *)
(* earlier, while the component is mounted.                                *)
C6_ResetExactlyAfterDelay ==
  [][/\ (lastOp'.op = "componentWillReceiveProps"
          /\ ~props.hasAddonBeenAdded /\ props'.hasAddonBeenAdded)
         => state'.addonAddedStatus = ADDON_ADDED_STATUS_SUCCESS
     /\ (lastOp'.op = "resetMessageStatus" /\ mounted
          /\ state.addonAddedStatus = ADDON_ADDED_STATUS_SUCCESS)
         => now = history.successAt + MESSAGE_RESET_TIME]_vars

(* C7: once the component is torn down no scheduled timer is left pending  *)
(* and the reset callback is never invoked.                                *)
C7_NoResetAfterUnmount ==
  /\ ~mounted => timers = {}
  /\ lastOp # Op("resetMessageStatus", "", "unmounted")

\* the timers scheduled, pending and run so far, against the false -> true
\* changes of the store's added flag
C8_Counts ==
  /\ history.nScheduled = history.nAdded
  /\ history.nReset <= history.nAdded
  /\ Cardinality(timers) + history.nReset <= history.nScheduled

(* C8: every false -> true change of the store's added flag schedules      *)
(* exactly one one-shot timer, nothing else schedules one, and the reset   *)
(* callback has never run more often than the flag has changed to true.    *)
C8_AtMostOneResetPerAdded ==
  /\ []C8_Counts
  /\ [][(timers' \ timers # {})
         => /\ lastOp'.op = "componentWillReceiveProps"
            /\ ~props.hasAddonBeenAdded /\ props'.hasAddonBeenAdded
            /\ Cardinality(timers' \ timers) = 1]_vars

\* two additions, two timers, each has run once
C8_Witness ==
  /\ history.nAdded = 2
  /\ history.nReset = 2
  /\ timers = {}
  /\ lastOp.op = "resetMessageStatus"

-----------------------------------------------------------------------------
\* v without its leading and trailing whitespace
Stripped(v) ==
  LET kept == {i \in 1..Len(v) : v[i] \notin SpaceChars}
  IN  IF kept = {} THEN <<>>
      ELSE SubSeq(v, CHOOSE i \in kept : \A j \in kept : i <= j,
                     CHOOSE i \in kept : \A j \in kept : i >= j)

SubmitDone == Op("onSubmit", "", "done")

\* the one action the last submit dispatched
Submitted == effects[1].action

(* C9: a submit with a name and a slug that are not blank and a site       *)
(* language dispatches exactly one action and leaves the buffer as it was: *)
(* in create mode a create-collection action with the current user, the    *)
(* site language as default locale and the include-add-on parameter; in    *)
(* edit mode, with a collection, an update-collection action with the      *)
(* persisted collection's slug, default locale and owner and the filters.  *)
(* Either holds the trimmed name and slug, name and description keyed by   *)
(* the site language.                                                      *)
C9_SubmitDispatch ==
  [][(/\ lastOp'.op = "onSubmit"
      /\ ~Blank(state.name) /\ ~Blank(state.slug)
      /\ props.siteLang # Missing
      /\ props.creating \/ props.collection # NullCollection)
     => /\ lastOp' = SubmitDone
        /\ state' = state
        /\ Len(effects') = 1
        /\ effects'[1].call = "dispatch"
        /\ LET a == effects'[1].action
           IN  /\ a.name = Localized(props.siteLang, Stripped(state.name))
               /\ a.description =
                    Localized(props.siteLang, state.description)
               /\ a.slug = Stripped(state.slug)
               /\ IF props.creating
                  THEN /\ a.type = "createCollection"
                       /\ a.username = props.currentUsername
                       /\ a.defaultLocale = props.siteLang
                       /\ a.includeAddonId = props.includeAddonId
                  ELSE /\ a.type = "updateCollection"
                       /\ a.collectionSlug = props.collection.slug
                       /\ a.defaultLocale = props.collection.defaultLocale
                       /\ a.username = props.collection.authorUsername
                       /\ a.filters = props.filters]_vars

\* an update was dispatched under the persisted slug while the buffer holds
\* another, padded, slug
C9_Witness ==
  /\ lastOp = SubmitDone
  /\ ~props.creating
  /\ state.slug = <<" ", "c", " ">>
  /\ state.name = <<" ", "b", " ">>
  /\ Submitted.type = "updateCollection"
  /\ Submitted.slug = <<"c">>
  /\ Submitted.collectionSlug = props.collection.slug

(* C10: a cancel with a collection, a client application and a site        *)
(* language resets the buffer to the persisted collection's decoded name   *)
(* and description and its slug, with the manually-edited flag and the     *)
(* added-status cleared, clears the pending error and navigates to         *)
(* /<siteLang>/<clientApp>/collections/<owner>/<slug>/ with the filters as *)
(* query; in create mode it first navigates back one history entry.        *)
C10_CancelResetsAndNavigates ==
  [][(/\ lastOp'.op = "onCancel"
      /\ props.collection # NullCollection
      /\ props.clientApp # Missing
      /\ props.siteLang # Missing)
     => /\ lastOp'.outcome = "done"
        /\ state' = FreshFrom(props.collection, NoStatus)
        /\ effects' =
             (IF props.creating THEN <<GoBack>> ELSE <<>>) \o
             <<ClearError,
               Push(<<"/", props.siteLang, "/", props.clientApp,
                      "/collections/", props.collection.authorUsername, "/",
                      props.collection.slug, "/">>,
                    convertFiltersToQueryParams(props.filters))>>]_vars

\* a cancel in create mode, after edits to the buffer, went back
\* first and left the collection's decoded values in the buffer
C10_Witness ==
  /\ lastOp = Op("onCancel", "", "done")
  /\ props.creating
  /\ props.collection = CollectionB
  /\ history.slugEdited
  /\ effects[1] = GoBack
  /\ Len(effects) = 3
  /\ state.name = <<"a", "&", "b">>

-----------------------------------------------------------------------------
\* the handler that just ran found one of its preconditions violated
SubmitViolated ==
  /\ lastOp'.op = "onSubmit"
  /\ \/ Blank(state.name)
     \/ Blank(state.slug)
     \/ props.siteLang = Missing
     \/ ~props.creating /\ props.collection = NullCollection

SelectionViolated ==
  /\ lastOp'.op = "onAddonSelected"
  /\ \/ lastOp'.arg = ToString(NoAddonId)
     \/ props.collection = NullCollection
     \/ props.currentUsername = Missing

CancelViolated ==
  /\ lastOp'.op = "onCancel"
  /\ \/ props.collection = NullCollection
     \/ props.clientApp = Missing
     \/ props.siteLang = Missing

\* the calls the handler that just ran has made
CallsMade == {effects'[i].call : i \in DOMAIN effects'}

(* C11: a precondition violation aborts the operation with no effect: a    *)
(* submit with a blank name, a blank slug, no site language or (in edit    *)
(* mode) no collection dispatches no action; an add-on selection with an   *)
(* empty add-on id, no collection or no signed-in user dispatches no       *)
(* action and leaves the added-status unchanged; a cancel with no          *)
(* collection, no client application or no site language navigates neither *)
(* back nor forward, does not reset the buffer and does not clear the      *)
(* error.                                                                  *)
C11_ViolationHasNoEffect ==
  [][/\ SubmitViolated => "dispatch" \notin CallsMade
     /\ SelectionViolated =>
          /\ "dispatch" \notin CallsMade
          /\ state'.addonAddedStatus = state.addonAddedStatus
     /\ CancelViolated =>
          /\ "router.goBack" \notin CallsMade
          /\ "router.push" \notin CallsMade
          /\ "errorHandler.clear" \notin CallsMade
          /\ state' = state]_vars

-----------------------------------------------------------------------------
\* the add-on ids a suggestion may carry
SelectedIds == {7, 8}

(* C12: selecting an add-on with a non-empty add-on id, a loaded           *)
(* collection and a signed-in user dispatches exactly one add-to-          *)
(* collection action carrying the add-on id, the collection's id and slug, *)
(* the current username and the current filters, and sets the added-status *)
(* to pending, leaving name, description, slug and manually-edited flag of *)
(* the buffer unchanged.                                                   *)
C12_SelectionDispatchesAdd ==
  [][\A addonId \in SelectedIds :
       (/\ lastOp'.op = "onAddonSelected"
        /\ lastOp'.arg = ToString(addonId)
        /\ props.collection # NullCollection
        /\ props.currentUsername # Missing)
       => /\ lastOp'.outcome = "done"
          /\ Len(effects') = 1
          /\ effects'[1].call = "dispatch"
          /\ effects'[1].action.type = "addAddonToCollection"
          /\ effects'[1].action.addonId = addonId
          /\ effects'[1].action.collectionId = props.collection.id
          /\ effects'[1].action.slug = props.collection.slug
          /\ effects'[1].action.username = props.currentUsername
          /\ effects'[1].action.filters = props.filters
          /\ state'.addonAddedStatus = ADDON_ADDED_STATUS_PENDING
          /\ BufferKept]_vars

\* add-on 8 was selected for the second collection, by a user who is not
\* its owner, after the buffer's slug was edited: the status is pending and
\* the action names the collection by its persisted slug
C12_Witness ==
  /\ lastOp = Op("onAddonSelected", "8", "done")
  /\ props.collection = CollectionB
  /\ props.currentUsername = "user1"
  /\ state.addonAddedStatus = ADDON_ADDED_STATUS_PENDING
  /\ state.slug = <<" ", "c", " ">>
  /\ effects[1].action.addonId = 8
  /\ effects[1].action.slug = CollectionB.slug
  /\ effects[1].action.filters = FiltersPage1

-----------------------------------------------------------------------------
(* C19: the status-reset timer is superseded, not stacked: in every        *)
(* reachable state at most one scheduled and not yet fired reset timer     *)
(* exists, so a second "add-on added" change that arrives before the first *)
(* timer fires replaces the first timer.                                   *)
C19_AtMostOnePendingTimer ==
  Cardinality(timers) <= 1

-----------------------------------------------------------------------------
(* C20: whenever the submit button is enabled and a site language is       *)
(* present, a submit hits no precondition violation: the buffer's trimmed  *)
(* name and slug are not empty and, in edit mode, a collection is loaded,  *)
(* and the submit dispatches exactly one create or update action.          *)
C20_EnabledSubmitDispatches ==
  [][(/\ lastOp'.op = "onSubmit"
      /\ ~isSubmitDisabled(props, state)
      /\ props.siteLang # Missing)
     => /\ Stripped(state.name) # <<>>
        /\ Stripped(state.slug) # <<>>
        /\ props.creating \/ props.collection # NullCollection
        /\ lastOp' = SubmitDone
        /\ Len(effects') = 1
        /\ effects'[1].call = "dispatch"
        /\ effects'[1].action.type =
             IF props.creating THEN "createCollection"
             ELSE "updateCollection"]_vars

\* in create mode, with no collection, a typed name and the slug derived
\* from it have enabled the button, and the submit has dispatched a create
C20_Witness ==
  /\ lastOp = SubmitDone
  /\ props.creating
  /\ props.collection = NullCollection
  /\ ~isSubmitDisabled(props, state)
  /\ state.name = <<" ", "b", " ">>
  /\ state.slug = <<"b">>
  /\ Submitted.type = "createCollection"

-----------------------------------------------------------------------------
(* What the claims about the install button speak of *)

UninstallStatuses == {DISABLED, STATUS_ENABLED, INSTALLED}

InFlightStatuses == {DOWNLOADING, ENABLING, INSTALLING, UNINSTALLING}

\* the install button has just handled a click
ButtonClicked == clicks' = clicks + 1

\* the calls of the last handler that are the call named call
CallsOf(call) == {i \in DOMAIN effects' : effects'[i].call = call}

\* the click just handled has made one uninstall call, with the add-on's
\* guid, name and type and the control's href, and has suppressed the
\* default navigation
UninstallDone ==
  /\ lastOp'.op = "uninstallAddon"
  /\ Cardinality(CallsOf("uninstall")) = 1
  /\ \E i \in CallsOf("uninstall") :
       effects'[i].params =
         [guid |-> button.addon.guid, installURL |-> button.installURL,
          name |-> button.addon.name, type |-> button.addon.type]
  /\ CallsOf("event.preventDefault") # {}

(* C13 as claimed: for every install status in {disabled, enabled,         *)
(* installed} and every add-on type, the click handler of the rendered     *)
(* control is the uninstall handler, which makes exactly one uninstall     *)
(* call carrying the add-on's guid, name and type and the control's href,  *)
(* and suppresses the default navigation.                                  *)
C13_UninstallForEveryAddon ==
  /\ [](button.status \in UninstallStatuses /\ render(button).element = "Button"
          => render(button).props.onClick = "uninstallAddon")
  /\ [][(ButtonClicked /\ button.status \in UninstallStatuses)
          => UninstallDone]_vars

(* C13 as amended: as claimed, for every add-on the compatibility check    *)
(* reports compatible; for an incompatible add-on the handler is not the   *)
(* uninstall handler.                                                      *)
C13_UninstallWhenCompatible ==
  /\ [](button.status \in UninstallStatuses /\ render(button).element = "Button"
          => (render(button).props.onClick = "uninstallAddon"
                <=> button.compatible))
  /\ [][(ButtonClicked /\ button.status \in UninstallStatuses)
          => IF button.compatible THEN UninstallDone
             ELSE CallsOf("uninstall") = {}]_vars

\* a click has uninstalled a disabled theme
C13_Witness ==
  /\ lastOp.op = "uninstallAddon"
  /\ button.addon.type = ADDON_TYPE_THEME
  /\ button.status = DISABLED
  /\ button.compatible
  /\ effects[3].call = "uninstall"
  /\ effects[3].params.installURL = <<"u", "?", "s">>

-----------------------------------------------------------------------------
\* what a click must not trigger on an incompatible add-on
ActionCalls ==
  {"InstallTrigger.install", "installTheme",
   "window.external.AddSearchProvider", "uninstall", "_tracking.sendEvent"}

\* the click just handled has triggered nothing
NothingTriggered ==
  /\ \A i \in DOMAIN effects' : effects'[i].call \notin ActionCalls
  /\ tracked' = tracked
  /\ installing' = installing

\* nothing is rendered for a search provider on the server
NothingRendered(p) == p.addon.type = ADDON_TYPE_OPENSEARCH /\ p.server

\* the Button is rendered, disabled
DisabledControl(p) ==
  /\ render(p).element = "Button"
  /\ render(p).disabledClass
  /\ render(p).props.onClick = "preventDefault"

(* C14 as claimed: whenever the compatibility check reports the add-on     *)
(* incompatible, the install control is rendered as a disabled control,    *)
(* for every install status and every add-on type, and a click on it       *)
(* triggers no install, theme install, search-provider registration,       *)
(* uninstall or tracking event.                                            *)
C14_DisabledForEveryStatus ==
  /\ [](~button.compatible => DisabledControl(button))
  /\ [][(ButtonClicked /\ ~button.compatible) => NothingTriggered]_vars

(* C14 as amended: as claimed, for every install status other than         *)
(* downloading, enabling, installing and uninstalling, and unless the      *)
(* add-on is a search provider rendered on the server: in those cases the  *)
(* loading animation, or nothing, is rendered in place of the disabled     *)
(* control, and there is nothing to click.                                 *)
C14_DisabledWhenRendered ==
  /\ [](~button.compatible =>
          IF NothingRendered(button) THEN render(button).element = "null"
          ELSE IF button.status \in InFlightStatuses
          THEN render(button).element = "AnimatedIcon"
          ELSE DisabledControl(button))
  /\ [][(ButtonClicked /\ ~button.compatible)
          => /\ NothingTriggered
             /\ button.status \notin InFlightStatuses
             /\ ~NothingRendered(button)]_vars

\* a click on the disabled control of an installed, incompatible theme has
\* done no more than prevent the default
C14_Witness ==
  /\ lastOp.op = "onClick"
  /\ ~button.compatible
  /\ button.status = INSTALLED
  /\ button.addon.type = ADDON_TYPE_THEME
  /\ effects = <<PreventDefault>>
  /\ clicks = 1
  /\ tracked = <<>>

-----------------------------------------------------------------------------
\* the handler an add-on of this type is installed by
InstallHandlerOf(type) ==
  IF type = ADDON_TYPE_THEME THEN "installTheme"
  ELSE IF type = ADDON_TYPE_OPENSEARCH THEN "installOpenSearch"
  ELSE "installExtension"

FourHandlers ==
  {"uninstallAddon", "installTheme", "installOpenSearch", "installExtension"}

\* the Button is rendered with the install handler of the add-on's type,
\* and with the theme data if and only if the handler is the theme's
InstallControl(p) ==
  /\ render(p).element = "Button"
  /\ render(p).props.onClick = InstallHandlerOf(p.addon.type)
  /\ render(p).props.onClick \in FourHandlers
  /\ IF p.addon.type = ADDON_TYPE_THEME
     THEN render(p).props.browsertheme = ToString(getThemeData(p.addon))
     ELSE render(p).props.browsertheme = NoAttribute

\* the add-on is compatible and neither installed, enabled nor disabled
Installable(p) == p.compatible /\ p.status \notin UninstallStatuses

(* C15 as claimed: for a compatible add-on whose status is not in          *)
(* {disabled, enabled, installed} the click handler is selected by the     *)
(* add-on type alone: the theme-install handler, with a serialized         *)
(* theme-data attribute, for a theme, the search-provider handler for a    *)
(* search provider, the extension-install handler for every other type;    *)
(* one of the four handlers is attached in every such render.              *)
C15_HandlerInEveryRender ==
  /\ [](Installable(button) => InstallControl(button))
  /\ [][(ButtonClicked /\ Installable(button))
          => lastOp'.op = InstallHandlerOf(button.addon.type)]_vars

(* C15 as amended: as claimed, in every such render of the Button, that    *)
(* is, while the status is none of downloading, enabling, installing and   *)
(* uninstalling and unless the add-on is a search provider rendered on the *)
(* server; otherwise no handler is attached.                               *)
C15_HandlerByTypeWhenRendered ==
  /\ [](Installable(button) =>
          IF NothingRendered(button) THEN render(button).element = "null"
          ELSE IF button.status \in InFlightStatuses
          THEN render(button).element = "AnimatedIcon"
          ELSE InstallControl(button))
  /\ [][(ButtonClicked /\ Installable(button))
          => lastOp'.op = InstallHandlerOf(button.addon.type)]_vars

\* a click on a search provider's control has registered the provider
C15_Witness ==
  /\ lastOp.op = "installOpenSearch"
  /\ button.addon.type = ADDON_TYPE_OPENSEARCH
  /\ button.compatible
  /\ button.status = UNINSTALLED
  /\ effects[3] = AddSearchProviderCall(button.installURL)
  /\ InstallControl(button)

-----------------------------------------------------------------------------
\* url up to its first "?"
WithoutQuery(url) ==
  LET marks == {i \in 1..Len(url) : url[i] = "?"}
  IN  IF marks = {} THEN url
      ELSE SubSeq(url, 1, (CHOOSE i \in marks : \A j \in marks : i <= j) - 1)

\* the files of the add-on's current version whose URL begins with key
FilesBeginningWith(addon, key) ==
  {i \in 1..Len(addon.current_version.files) :
     LET fileUrl == addon.current_version.files[i].url
     IN  /\ Len(key) <= Len(fileUrl)
         /\ \A j \in 1..Len(key) : fileUrl[j] = key[j]}

\* the hash of the first file of the add-on's current version whose URL
\* begins with the install URL without its query string
HashFor(addon, installURL) ==
  LET matching == FilesBeginningWith(addon, WithoutQuery(installURL))
  IN  IF matching = {} THEN Undefined
      ELSE addon.current_version.files[
             CHOOSE i \in matching : \A j \in matching : i <= j].hash

StartedOf(click) ==
  Tracked(click, InstallStartedEvent(button.addon.name, button.addon.type))

IsSucceeded(entry) == entry.event.category[3] = INSTALL_ACTION

IsStarted(entry) == entry.event.category[3] = INSTALL_STARTED_ACTION

\* the click just handled by the extension-install handler
ExtensionClicked == lastOp'.op = "installExtension"

(* C16: on every click handled by the extension-install handler the        *)
(* "install started" event is recorded first; if InstallTrigger is there   *)
(* it is then called exactly once, with the file hash resolved for the     *)
(* control's href, and the default navigation is suppressed; otherwise no  *)
(* native call is made and the default navigation proceeds. An "install    *)
(* succeeded" event is recorded only by a completion callback with status  *)
(* 0, never for another status and never before the "install started"      *)
(* event of the same click.                                                *)
C16_ExtensionInstallTracked ==
  [][/\ ExtensionClicked =>
          /\ effects'[1] = SendEvent(StartedOf(clicks').event)
          /\ tracked' = Append(tracked, StartedOf(clicks'))
          /\ IF button.installTrigger
             THEN /\ Cardinality(CallsOf("InstallTrigger.install")) = 1
                  /\ \A i \in CallsOf("InstallTrigger.install") :
                       /\ i > 1
                       /\ effects'[i].payload.Hash =
                            HashFor(button.addon, button.installURL)
                       /\ effects'[i].payload.URL = button.installURL
                  /\ CallsOf("event.preventDefault") # {}
             ELSE /\ CallsOf("InstallTrigger.install") = {}
                  /\ CallsOf("event.preventDefault") = {}
                  /\ installing' = installing
     /\ (tracked' # tracked /\ IsSucceeded(tracked'[Len(tracked')])) =>
          /\ lastOp' = Op("installCompleted", "0", "done")
          /\ tracked' = Append(tracked, tracked'[Len(tracked')])
          /\ \E i \in 1..Len(tracked) :
               /\ IsStarted(tracked[i])
               /\ tracked[i].click = tracked'[Len(tracked')].click
     /\ (lastOp'.op = "installCompleted" /\ lastOp'.arg # "0") =>
          tracked' = tracked]_vars

\* two clicks have started two installs; the second has completed with
\* status 0, after the first had failed: one "install succeeded" event,
\* that of the second click, follows the two "install started" events
C16_Witness ==
  /\ lastOp = Op("installCompleted", "0", "done")
  /\ installing = {}
  /\ Len(tracked) = 3
  /\ IsStarted(tracked[1]) /\ tracked[1].click = 1
  /\ IsStarted(tracked[2]) /\ tracked[2].click = 2
  /\ IsSucceeded(tracked[3]) /\ tracked[3].click = 2

-----------------------------------------------------------------------------
\* the arguments of the getFileHash call and what it gave
HashCalled == hashCall.outcome # NotCalled

\* the add-on or the install URL is empty
EmptyArgument ==
  hashCall.addon = NoAddon \/ hashCall.installURL \in {<<>>, Null}

\* a file of the add-on's current version matches the install URL
SomeFileMatches ==
  /\ hashCall.addon.current_version # NoVersion
  /\ FilesBeginningWith(hashCall.addon, WithoutQuery(hashCall.installURL))
       # {}

(* C17: getFileHash returns the hash of the matching file of the current   *)
(* version when the install URL without its query string is a prefix of    *)
(* that file's URL (the first such file in list order when several match), *)
(* returns undefined after logging a warning, without failing, when no     *)
(* file matches or the add-on has no current version, and throws when the  *)
(* add-on or the install URL is empty.                                     *)
C17_GetFileHash ==
  HashCalled =>
    IF EmptyArgument
    THEN hashCall.outcome.threw /\ effects = <<>>
    ELSE IF SomeFileMatches
    THEN /\ ~hashCall.outcome.threw
         /\ hashCall.outcome.value =
              HashFor(hashCall.addon, hashCall.installURL)
         /\ hashCall.outcome.value # Undefined
         /\ effects = <<>>
    ELSE /\ ~hashCall.outcome.threw
         /\ hashCall.outcome.value = Undefined
         /\ effects = <<LogWarn>>

\* the install URL "u?v" names, without its query, a prefix of the URLs of
\* both files, and the hash returned is the first file's
C17_Witness ==
  /\ HashCalled
  /\ hashCall.installURL = <<"u", "?", "v">>
  /\ hashCall.addon.current_version.files =
       <<File(<<"u", "v">>, Hash(1)), File(<<"u">>, Hash(2))>>
  /\ hashCall.outcome.value = Hash(1)
  /\ lastOp = Op("getFileHash", "", "done")

-----------------------------------------------------------------------------
(* C18 as claimed: while the install status is one of downloading,         *)
(* enabling, installing and uninstalling the component renders the         *)
(* animated placeholder instead of the button, so that no click handler    *)
(* can be invoked in those statuses; for every other status the button is  *)
(* rendered.                                                               *)
C18_PlaceholderForEveryAddon ==
  /\ [](render(button).element =
          IF button.status \in InFlightStatuses THEN "AnimatedIcon"
          ELSE "Button")
  /\ [][ButtonClicked => button.status \notin InFlightStatuses]_vars

(* C18 as amended: as claimed, unless the add-on is a search provider      *)
(* rendered on the server, for which neither the placeholder nor the       *)
(* button is rendered, whatever the status.                                *)
C18_PlaceholderWhileInFlight ==
  /\ [](render(button).element =
          IF NothingRendered(button) THEN "null"
          ELSE IF button.status \in InFlightStatuses THEN "AnimatedIcon"
          ELSE "Button")
  /\ [][ButtonClicked => button.status \notin InFlightStatuses]_vars

\* after a click has started an install the status has gone to
\* uninstalling, and the placeholder is rendered in place of the button
C18_Witness ==
  /\ lastOp.op = "InstallButton.render"
  /\ button.status = UNINSTALLING
  /\ button.compatible
  /\ clicks = 1
  /\ installing # {}
  /\ render(button).element = "AnimatedIcon"

-----------------------------------------------------------------------------
\* the cancel button is enabled: a collection is loaded or the form is in
\* create mode, and no modification is in flight
CancelEnabled ==
  /\ props.collection # NullCollection \/ props.creating
  /\ ~props.isCollectionBeingModified

(* C21: whenever the cancel button is enabled (a collection is loaded or   *)
(* the form is in create mode, and no modification is in flight) and the   *)
(* client application and the site language are present, a click on cancel *)
(* hits no precondition violation; the button is never enabled while the   *)
(* collection that cancel requires is missing.                             *)
C21_EnabledCancelIsAllowed ==
  /\ [](CancelEnabled => props.collection # NullCollection)
  /\ [][(/\ lastOp'.op = "onCancel"
         /\ CancelEnabled
         /\ props.clientApp # Missing
         /\ props.siteLang # Missing)
        => lastOp'.outcome = "done"]_vars

-----------------------------------------------------------------------------
\* the buffer has just been initialized or reset from a loaded collection,
\* and no text has been put in since
FreshFromCollection ==
  /\ props.collection # NullCollection
  /\ \/ lastOp = Op("constructor", "", "done")
     \/ lastOp = Op("componentWillReceiveProps", "reset", "done")
     \/ lastOp = Op("onCancel", "", "done")

(* C22: immediately after the edit buffer is initialized or reset from a   *)
(* loaded collection (construction, receipt of a collection with a new     *)
(* identifier, or cancel), and before any text input, the buffer counts as *)
(* unchanged and the submit button is disabled, for every collection,      *)
(* including those whose persisted name or description is changed by       *)
(* HTML-entity decoding.                                                   *)
C22_FreshBufferIsUnchanged ==
  FreshFromCollection =>
    /\ formIsUnchanged(props, state)
    /\ isSubmitDisabled(props, state)

-----------------------------------------------------------------------------
\* the fields of the edit buffer and of the rest of the component's state
BufferFields ==
  {"name", "slug", "description", "customSlug", "addonAddedStatus"}

\* a text input has just been handled while an existing collection is edited
EditModeTextInput == lastOp'.op = "onTextInput" /\ ~props.creating

(* C23: when the form is not in create mode (an existing collection is     *)
(* edited), a text input changes only the field named by the input: a name *)
(* input never changes the buffer's slug, no input ever sets the           *)
(* manually-edited flag, and a null or undefined input value changes       *)
(* nothing.                                                                *)
C23_EditModeInputChangesOneField ==
  [][EditModeTextInput =>
       /\ \A f \in BufferFields \ {lastOp'.arg} : state'[f] = state[f]
       /\ lastOp'.arg = "name" => state'.slug = state.slug
       /\ state'.customSlug = state.customSlug
       /\ lastOp'.outcome = "ignored" => state' = state]_vars

\* a name has been typed over a loaded collection: the slug is still the
\* collection's and the flag is still unset
C23_Witness ==
  /\ lastOp = Op("onTextInput", "name", "done")
  /\ ~props.creating
  /\ props.collection = CollectionA
  /\ state.name = FooBar
  /\ state.slug = CollectionA.slug
  /\ state.slug # SlugFromName(FooBar)
  /\ ~state.customSlug

=============================================================================
